---- MODULE Spec2Model ----
(***************************************************************************)
(* Dukaan-Dost (src/app.py): the order ledger, the catalog, the message    *)
(* router and the two background sweeps, as a state machine.               *)
(*                                                                         *)
(* Threads: one request path (incoming), the status sweep                  *)
(* (simulate_order_flow) and the notification sweep (check_order_updates). *)
(* load_orders and save_orders each take the ledger's file lock on their   *)
(* own, so a handler that loads and later saves is two atomic steps with   *)
(* the other threads free to run in between.  Lines that touch only the    *)
(* catalog, the sessions or the admin set run on the request path alone    *)
(* and are folded into the step that precedes the next ledger access.      *)
(***************************************************************************)
EXTENDS Integers, Sequences, FiniteSets, TLC

(* ------------------------------ bounds -------------------------------- *)
\* successful placements over a run
MaxOrders == 2
\* restock may take a stock at most this far above the seeded stock
MaxSurplus == 1
\* and at most this far below zero
MaxDebt == 1

(* ------------------------- program constants -------------------------- *)
ADMIN_PIN == "1234"
LOW_STOCK_THRESHOLD == 10
SeedStock == 10
BaseOrderId == 10001

\* load_products seeds these three rows when products.csv does not exist
ProductNames == {"sugar", "rice", "oil"}

load_products == [p \in ProductNames |-> SeedStock]

(* ----------------------- decimal text <-> int -------------------------- *)
DIGITS == <<"0", "1", "2", "3", "4", "5", "6", "7", "8", "9">>

DigitSet == {DIGITS[i] : i \in 1..10}

DigitVal(c) == (CHOOSE i \in 1..10 : DIGITS[i] = c) - 1

RECURSIVE NatStr(_)
NatStr(n) == IF n < 10 THEN <<DIGITS[n + 1]>>
             ELSE NatStr(n \div 10) \o <<DIGITS[(n % 10) + 1]>>

\* str(n) of a Python int
str(n) == IF n < 0 THEN <<"-">> \o NatStr(-n) ELSE NatStr(n)

\* str.isdigit(): non-empty and decimal digits only
isdigit(s) == Len(s) > 0 /\ \A i \in 1..Len(s) : s[i] \in DigitSet

\* the texts int() accepts among those modelled: an optional sign, then digits
IsIntText(s) == \/ isdigit(s)
                \/ Len(s) > 1 /\ s[1] = "-" /\ isdigit(Tail(s))

RECURSIVE NatVal(_)
NatVal(s) == IF Len(s) = 0 THEN 0
             ELSE 10 * NatVal(SubSeq(s, 1, Len(s) - 1)) + DigitVal(s[Len(s)])

\* int(s), where IsIntText(s)
int(s) == IF s[1] = "-" THEN 0 - NatVal(Tail(s)) ELSE NatVal(s)

(* ------------------------------ state --------------------------------- *)
VARIABLES
    products,          \* products.csv: name -> stock
    orders,            \* orders.csv: the ledger, rows in file order
    user_sessions,     \* identity -> session state ("none": no key)
    admin_numbers,     \* identities in admin mode
    last_order_status, \* order_id -> status last seen by the notification sweep
    reqPc,             \* request path: "idle", or "add_order" between load_orders and save_orders
    reqDf,             \* add_order's df
    reqArgs,           \* add_order's product, qty_int, customer
    simPc,             \* status sweep: "scheduled", or "loaded" between load_orders and the scan
    simDf,             \* simulate_order_flow's df
    outbox,            \* alerts and order updates sent by the last step
    issued,            \* history: order ids returned by add_order, in order
    announced,         \* history: order_id -> statuses sent to its customer, in order
    timers,            \* sweep -> its threading.Timer objects started and not yet fired
    raised,            \* sweep -> whether its last run ended in its except branch
    restocked          \* history: product -> sum of the quantities restocked

vars == <<products, orders, user_sessions, admin_numbers, last_order_status,
          reqPc, reqDf, reqArgs, simPc, simDf, outbox, issued, announced,
          timers, raised, restocked>>

Identities == {"919900000001", "919900000002", "919900000003"}

\* the two sweeps, by the name of their function
Sweeps == {"simulate_order_flow", "check_order_updates"}

NoArgs == [product |-> "", qty_int |-> 0, customer |-> ""]

Init ==
    /\ products = load_products
    /\ orders = <<>>
    /\ user_sessions = [c \in Identities |-> "none"]
    /\ admin_numbers = {}
    /\ last_order_status = <<>>
    /\ reqPc = "idle"
    /\ reqDf = <<>>
    /\ reqArgs = NoArgs
    /\ simPc = "scheduled"
    /\ simDf = <<>>
    /\ outbox = <<>>
    /\ issued = <<>>
    /\ announced = <<>>
    /\ timers = [sweep \in Sweeps |-> 1]
    /\ raised = [sweep \in Sweeps |-> FALSE]
    /\ restocked = [name \in ProductNames |-> 0]

(* --------------------------- inbound texts ---------------------------- *)
(* A text, after strip().lower(), is one of the shapes the router tells    *)
(* apart:                                                                  *)
(*   "admin"        admin <name>       (name = "" when no second word)     *)
(*   "exit"         exit                                                   *)
(*   "restock"      restock <name>,<num>                                   *)
(*   "restock_bare" restock <name>     (no comma)                          *)
(*   "pair"         <name>,<num>                                           *)
(*   "digits"       <num>              (decimal digits only)               *)
(*   "hi", "offers", "word"            (word: any other text, no comma)    *)
Text(k, name, num) == [k |-> k, name |-> name, num |-> num]

\* text.startswith("admin")
StartsWithAdmin(text) == text.k = "admin"

\* text.startswith("restock ")
StartsWithRestock(text) == text.k \in {"restock", "restock_bare"}

\* "," in text
HasComma(text) == text.k \in {"pair", "restock"}

\* text.split(",", 1)[0].strip(), for a text with a comma
BeforeComma(text) == IF text.k = "pair" THEN text.name ELSE "restock <name>"

\* text.split(",", 1)[1].strip(), for a text with a comma
AfterComma(text) == text.num

\* text.isdigit()
TextIsDigit(text) == text.k = "digits"

(* --------------------------- outbound messages ------------------------ *)
\* The messages the program sends on its own account: add_order's low stock
\* alerts and check_order_updates' order updates.  A reply to the sender of a
\* text changes nothing the program keeps and is left out.
Msg(to, kind, order_id, product, n, status) ==
    [to |-> to, kind |-> kind, order_id |-> order_id, product |-> product,
     n |-> n, status |-> status]

(* ------------------------------ ledger -------------------------------- *)
\* the row add_order builds (payment and date are fixed per row and left out)
NewRow(new_id, product, qty_int, customer) ==
    [order_id |-> str(new_id), product |-> product, quantity |-> str(qty_int),
     status |-> "Processing", eta |-> "2 days", customer |-> customer]

Max(S) == CHOOSE x \in S : \A y \in S : y <= x

\* NextOrderId with the increment forgotten
NextOrderId_NoIncrement(df) ==
    IF Len(df) = 0 THEN BaseOrderId
    ELSE Max({int(df[i].order_id) : i \in 1..Len(df)})

\* add_order's new_id, from the df it loaded
NextOrderId(df) ==
    IF Len(df) = 0 THEN BaseOrderId
    ELSE IF \A i \in 1..Len(df) : IsIntText(df[i].order_id)
         THEN Max({int(df[i].order_id) : i \in 1..Len(df)}) + 1
         ELSE Len(df) + BaseOrderId

\* the stock values the model follows
InBounds(n) == 0 - MaxDebt <= n /\ n <= SeedStock + MaxSurplus

\* the low stock alerts of add_order, one per admin
RECURSIVE LowStockAlerts(_, _, _)
LowStockAlerts(admins, product, new_stock) ==
    IF admins = {} THEN <<>>
    ELSE LET a == CHOOSE x \in admins : TRUE
         IN  <<Msg(a, "low_stock", <<>>, product, new_stock, "")>>
             \o LowStockAlerts(admins \ {a}, product, new_stock)

\* AlertsFor with <= for <
AlertsFor_AtThreshold(admins, product, new_stock) ==
    IF new_stock <= LOW_STOCK_THRESHOLD THEN LowStockAlerts(admins, product, new_stock)
    ELSE <<>>

\* add_order's low stock alert: the messages it tries to send
AlertsFor(admins, product, new_stock) ==
    IF new_stock < LOW_STOCK_THRESHOLD THEN LowStockAlerts(admins, product, new_stock)
    ELSE <<>>

\* what becomes of the messages add_order tries to send: each is sent, or its
\* send raises (status "failed"), which send_whatsapp_message and add_order
\* catch and print
SendOutcomes(msgs) ==
    {[i \in 1..Len(msgs) |-> IF i \in F THEN [msgs[i] EXCEPT !.status = "failed"]
                                        ELSE msgs[i]] : F \in SUBSET (1..Len(msgs))}

\* AddOrderCheck refusing an order for the whole stock (>= for >)
AddOrderCheck_WholeStockRefused(product, qty_int) ==
    IF product \notin DOMAIN products THEN "no_product"
    ELSE IF qty_int >= products[product] THEN "insufficient"
    ELSE "ok"

\* add_order up to its return None, or its load_orders
\* "ok" when add_order goes on to create the order record
AddOrderCheck(product, qty_int) ==
    IF product \notin DOMAIN products THEN "no_product"
    ELSE IF qty_int > products[product] THEN "insufficient"
    ELSE "ok"

\* add_order's stock after the order
StockAfterOrder(current_stock, qty_int) == current_stock - qty_int

\* StockAfterRestock setting the stock to the quantity
StockAfterRestock_Replace(current_stock, qty) == qty

\* handle_admin_command_text's stock after a restock
StockAfterRestock(current_stock, qty) == current_stock + qty

(* --------------------------- request path ----------------------------- *)
ledgerSide == <<orders, last_order_status, simPc, simDf, issued, announced,
                timers, raised>>

\* PinMatches for any second word
PinMatches_AnyWord(text) == text.name # ""

\* incoming: len(parts) >= 2 and parts[1] == ADMIN_PIN
PinMatches(text) == text.name # "" /\ text.name = ADMIN_PIN

\* incoming: text.startswith("admin")
AdminLogin(from, text) ==
    /\ admin_numbers' = IF PinMatches(text) THEN admin_numbers \cup {from}
                        ELSE admin_numbers
    /\ outbox' = <<>>
    /\ UNCHANGED <<restocked, products, user_sessions, reqPc, reqDf, reqArgs>>

\* incoming: text == "exit" and from_number in admin_numbers
AdminExit(from) ==
    /\ admin_numbers' = admin_numbers \ {from}
    /\ outbox' = <<>>
    /\ UNCHANGED <<restocked, products, user_sessions, reqPc, reqDf, reqArgs>>

\* Restock taking a quantity it cannot read as 1
Restock_DefaultQuantity(from, text) ==
    /\ IF text.name \in DOMAIN products
       THEN LET qty == IF text.k = "restock" /\ IsIntText(AfterComma(text))
                       THEN int(AfterComma(text)) ELSE 1
                new_stock == StockAfterRestock(products[text.name], qty)
            IN  /\ InBounds(new_stock)
                /\ products' = [products EXCEPT ![text.name] = new_stock]
                /\ restocked' = [restocked EXCEPT ![text.name] = @ + qty]
       ELSE UNCHANGED <<products, restocked>>
    /\ outbox' = <<>>
    /\ UNCHANGED <<user_sessions, admin_numbers, reqPc, reqDf, reqArgs>>

\* handle_admin_command_text: the restock command
Restock(from, text) ==
    /\ IF text.k = "restock_bare"
       THEN UNCHANGED <<products, restocked>>
       ELSE IF ~IsIntText(AfterComma(text))
       THEN UNCHANGED <<products, restocked>>
       ELSE IF text.name \in DOMAIN products
       THEN LET new_stock == StockAfterRestock(products[text.name], int(AfterComma(text)))
            IN  /\ InBounds(new_stock)
                /\ products' = [products EXCEPT ![text.name] = new_stock]
                /\ restocked' = [restocked EXCEPT ![text.name] = @ + int(AfterComma(text))]
       ELSE UNCHANGED <<products, restocked>>
    /\ outbox' = <<>>
    /\ UNCHANGED <<user_sessions, admin_numbers, reqPc, reqDf, reqArgs>>

\* incoming: from_number in admin_numbers
AdminAction(from, text) ==
    IF StartsWithRestock(text) THEN Restock(from, text)
    ELSE /\ outbox' = <<>>
         /\ UNCHANGED <<restocked, products, user_sessions, admin_numbers, reqPc, reqDf, reqArgs>>

\* incoming: user_sessions.get(session_key) == "awaiting_order_id"
AwaitingOrderId(from, text) ==
    /\ user_sessions' = [user_sessions EXCEPT ![from] = "none"]
    /\ outbox' = <<>>
    /\ UNCHANGED <<restocked, products, admin_numbers, reqPc, reqDf, reqArgs>>

\* AwaitingNewOrder with add_order's return None for an unknown product left
\* out: only the stock lines are skipped
AwaitingNewOrder_UnknownProductOrdered(from, text) ==
    /\ user_sessions' = [user_sessions EXCEPT ![from] = "none"]
    /\ IF ~HasComma(text)
       THEN /\ outbox' = <<>>
            /\ UNCHANGED <<products, reqPc, reqDf, reqArgs>>
       ELSE IF ~IsIntText(AfterComma(text))
       THEN /\ outbox' = <<>>
            /\ UNCHANGED <<products, reqPc, reqDf, reqArgs>>
       ELSE LET product == BeforeComma(text)
                qty_int == int(AfterComma(text))
            IN  IF AddOrderCheck(product, qty_int) = "no_product"
                THEN /\ Len(issued) < MaxOrders
                     /\ outbox' = <<>>
                     /\ reqDf' = orders
                     /\ reqArgs' = [product |-> product, qty_int |-> qty_int,
                                    customer |-> from]
                     /\ reqPc' = "add_order"
                     /\ UNCHANGED products
                ELSE IF AddOrderCheck(product, qty_int) # "ok"
                THEN /\ outbox' = <<>>
                     /\ UNCHANGED <<products, reqPc, reqDf, reqArgs>>
                ELSE LET new_stock == StockAfterOrder(products[product], qty_int)
                     IN  /\ Len(issued) < MaxOrders
                         /\ InBounds(new_stock)
                         /\ products' = [products EXCEPT ![product] = new_stock]
                         /\ outbox' \in SendOutcomes(AlertsFor(admin_numbers, product,
                                                                new_stock))
                         /\ reqDf' = orders
                         /\ reqArgs' = [product |-> product, qty_int |-> qty_int,
                                        customer |-> from]
                         /\ reqPc' = "add_order"
    /\ UNCHANGED <<admin_numbers, restocked>>

\* incoming: user_sessions.get(session_key) == "awaiting_new_order", up to
\* add_order's load_orders
AwaitingNewOrder(from, text) ==
    /\ user_sessions' = [user_sessions EXCEPT ![from] = "none"]
    /\ IF ~HasComma(text)
       THEN /\ outbox' = <<>>
            /\ UNCHANGED <<products, reqPc, reqDf, reqArgs>>
       ELSE IF ~IsIntText(AfterComma(text))
       THEN /\ outbox' = <<>>
            /\ UNCHANGED <<products, reqPc, reqDf, reqArgs>>
       ELSE LET product == BeforeComma(text)
                qty_int == int(AfterComma(text))
            IN  IF AddOrderCheck(product, qty_int) # "ok"
                THEN /\ outbox' = <<>>
                     /\ UNCHANGED <<products, reqPc, reqDf, reqArgs>>
                ELSE LET new_stock == StockAfterOrder(products[product], qty_int)
                     IN  /\ Len(issued) < MaxOrders
                         /\ InBounds(new_stock)
                         /\ products' = [products EXCEPT ![product] = new_stock]
                         /\ outbox' \in SendOutcomes(AlertsFor(admin_numbers, product,
                                                                new_stock))
                         /\ reqDf' = orders
                         /\ reqArgs' = [product |-> product, qty_int |-> qty_int,
                                        customer |-> from]
                         /\ reqPc' = "add_order"
    /\ UNCHANGED <<admin_numbers, restocked>>

\* incoming: the customer menu
Menu(from, text) ==
    /\ user_sessions' =
         IF TextIsDigit(text) /\ text.num = str(2)
         THEN [user_sessions EXCEPT ![from] = "awaiting_order_id"]
         ELSE IF TextIsDigit(text) /\ text.num = str(3)
         THEN [user_sessions EXCEPT ![from] = "awaiting_new_order"]
         ELSE IF text.k = "hi" THEN [user_sessions EXCEPT ![from] = "none"]
         ELSE user_sessions
    /\ outbox' = <<>>
    /\ UNCHANGED <<restocked, products, admin_numbers, reqPc, reqDf, reqArgs>>

\* Incoming with the customer flow tried before the admin actions
Incoming_SessionFirst(from, text) ==
    /\ reqPc = "idle"
    /\ IF StartsWithAdmin(text) THEN AdminLogin(from, text)
       ELSE IF text.k = "exit" /\ from \in admin_numbers THEN AdminExit(from)
       ELSE IF user_sessions[from] = "awaiting_order_id" THEN AwaitingOrderId(from, text)
       ELSE IF user_sessions[from] = "awaiting_new_order" THEN AwaitingNewOrder(from, text)
       ELSE IF from \in admin_numbers THEN AdminAction(from, text)
       ELSE Menu(from, text)
    /\ UNCHANGED ledgerSide

\* incoming, for one message: the whole handler, or its part up to
\* add_order's load_orders
Incoming(from, text) ==
    /\ reqPc = "idle"
    /\ IF StartsWithAdmin(text) THEN AdminLogin(from, text)
       ELSE IF text.k = "exit" /\ from \in admin_numbers THEN AdminExit(from)
       ELSE IF from \in admin_numbers THEN AdminAction(from, text)
       ELSE IF user_sessions[from] = "awaiting_order_id" THEN AwaitingOrderId(from, text)
       ELSE IF user_sessions[from] = "awaiting_new_order" THEN AwaitingNewOrder(from, text)
       ELSE Menu(from, text)
    /\ UNCHANGED ledgerSide

\* add_order from the df it loaded to its return, and incoming's reply
AddOrderSave ==
    /\ reqPc = "add_order"
    /\ LET new_id == NextOrderId(reqDf)
       IN  /\ orders' = Append(reqDf, NewRow(new_id, reqArgs.product, reqArgs.qty_int,
                                             reqArgs.customer))
           /\ issued' = Append(issued, str(new_id))
           /\ outbox' = <<>>
    /\ reqPc' = "idle"
    /\ reqDf' = <<>>
    /\ reqArgs' = NoArgs
    /\ UNCHANGED <<restocked, products, user_sessions, admin_numbers, last_order_status,
                   simPc, simDf, announced, timers, raised>>

(* --------------------------- status sweep ----------------------------- *)
\* a Timer of the sweep fires: its function starts to run
Fired(t, sweep) == [t EXCEPT ![sweep] = @ - 1]

\* AfterRun with the Timer started inside the try block
AfterRun_InsideTry(t, sweep, hit_error) ==
    IF hit_error THEN t ELSE [t EXCEPT ![sweep] = @ + 1]

\* the end of a run of a sweep, after its try/except: threading.Timer(...).start()
AfterRun(t, sweep, hit_error) == [t EXCEPT ![sweep] = @ + 1]

\* str.lower() on the status texts the ledger holds
lower(status) ==
    CASE status = "Processing" -> "processing"
      [] status = "Shipped" -> "shipped"
      [] status = "Delivered" -> "delivered"
      [] OTHER -> status

\* ScanHit without the elif for shipped rows
ScanHit_ProcessingOnly(df) ==
    LET hits == {i \in 1..Len(df) : lower(df[i].status) = "processing"}
    IN  IF hits = {} THEN 0 ELSE CHOOSE i \in hits : \A j \in hits : i <= j

\* simulate_order_flow's loop: the row at which it breaks, 0 when it runs to the end
ScanHit(df) ==
    LET hits == {i \in 1..Len(df) : lower(df[i].status) \in {"processing", "shipped"}}
    IN  IF hits = {} THEN 0 ELSE CHOOSE i \in hits : \A j \in hits : i <= j

\* the row as simulate_order_flow rewrites it
Advance(row) ==
    IF lower(row.status) = "processing"
    THEN [row EXCEPT !.status = "Shipped", !.eta = "Tomorrow"]
    ELSE [row EXCEPT !.status = "Delivered", !.eta = "Delivered Today"]

\* simulate_order_flow: the timer fires, load_orders
SimLoad ==
    /\ simPc = "scheduled"
    /\ timers["simulate_order_flow"] > 0
    /\ timers' = Fired(timers, "simulate_order_flow")
    /\ UNCHANGED raised
    /\ simDf' = orders
    /\ simPc' = "loaded"
    /\ outbox' = <<>>
    /\ UNCHANGED <<restocked, products, orders, user_sessions, admin_numbers, last_order_status,
                   reqPc, reqDf, reqArgs, issued, announced>>

\* simulate_order_flow: the scan, save_orders on a hit, and the next timer
SimScan ==
    /\ simPc = "loaded"
    /\ timers' = AfterRun(timers, "simulate_order_flow", FALSE)
    /\ raised' = [raised EXCEPT !["simulate_order_flow"] = FALSE]
    /\ orders' = IF ScanHit(simDf) = 0 THEN orders
                 ELSE [simDf EXCEPT ![ScanHit(simDf)] = Advance(@)]
    /\ simPc' = "scheduled"
    /\ simDf' = <<>>
    /\ outbox' = <<>>
    /\ UNCHANGED <<restocked, products, user_sessions, admin_numbers, last_order_status,
                   reqPc, reqDf, reqArgs, issued, announced>>

\* simulate_order_flow: a run that raises after load_orders (in the scan or in
\* save_orders, nothing written), its except branch, and the next timer
SimRaise ==
    /\ simPc = "loaded"
    /\ timers' = AfterRun(timers, "simulate_order_flow", TRUE)
    /\ raised' = [raised EXCEPT !["simulate_order_flow"] = TRUE]
    /\ simPc' = "scheduled"
    /\ simDf' = <<>>
    /\ outbox' = <<>>
    /\ UNCHANGED <<restocked, products, orders, user_sessions, admin_numbers, last_order_status,
                   reqPc, reqDf, reqArgs, issued, announced>>

(* ------------------------- notification sweep ------------------------- *)
\* RowVerdict without the comparison with the cached status
RowVerdict_NoComparison(cache, row) ==
    IF row.order_id \notin DOMAIN cache THEN "seed"
    ELSE IF row.customer # "" THEN "notify" ELSE "silent"

\* check_order_updates' decision for one row: "seed", "notify", "silent" (a change
\* for a row without customer) or "same"
RowVerdict(cache, row) ==
    IF row.order_id \notin DOMAIN cache THEN "seed"
    ELSE IF cache[row.order_id] # row.status
         THEN IF row.customer # "" THEN "notify" ELSE "silent"
         ELSE "same"

\* check_order_updates' loop from row i on: the cache and the messages it ends with
RECURSIVE UpdatesFrom(_, _, _, _)
UpdatesFrom(df, i, cache, sent) ==
    IF i > Len(df) THEN [cache |-> cache, sent |-> sent]
    ELSE LET row == df[i]
             verdict == RowVerdict(cache, row)
         IN  UpdatesFrom(df, i + 1,
                 IF verdict = "seed" THEN cache @@ (row.order_id :> row.status)
                 ELSE IF verdict = "same" THEN cache
                 ELSE [cache EXCEPT ![row.order_id] = row.status],
                 IF verdict = "notify"
                 THEN Append(sent, Msg(row.customer, "order_update", row.order_id,
                                       row.product, 0, row.status))
                 ELSE sent)

\* the statuses announced so far, with those of the messages in sent added
RECURSIVE Recorded(_, _)
Recorded(hist, sent) ==
    IF Len(sent) = 0 THEN hist
    ELSE LET m == Head(sent)
         IN  Recorded(IF m.order_id \in DOMAIN hist
                      THEN [hist EXCEPT ![m.order_id] = Append(@, m.status)]
                      ELSE hist @@ (m.order_id :> <<m.status>>),
                      Tail(sent))

\* check_order_updates: one run (load_orders, the loop, the next timer)
CheckOrderUpdates ==
    /\ timers["check_order_updates"] > 0
    /\ timers' = AfterRun(Fired(timers, "check_order_updates"), "check_order_updates",
                          FALSE)
    /\ raised' = [raised EXCEPT !["check_order_updates"] = FALSE]
    /\ LET run == UpdatesFrom(orders, 1, last_order_status, <<>>)
       IN  /\ last_order_status' = run.cache
           /\ outbox' = run.sent
           /\ announced' = Recorded(announced, run.sent)
    /\ UNCHANGED <<restocked, products, orders, user_sessions, admin_numbers,
                   reqPc, reqDf, reqArgs, simPc, simDf, issued>>

\* check_order_updates: a run in which load_orders raises (nothing of the
\* cache written, nothing sent), its except branch, and the next timer
CheckRaise ==
    /\ timers["check_order_updates"] > 0
    /\ timers' = AfterRun(Fired(timers, "check_order_updates"), "check_order_updates",
                          TRUE)
    /\ raised' = [raised EXCEPT !["check_order_updates"] = TRUE]
    /\ outbox' = <<>>
    /\ UNCHANGED <<restocked, products, orders, user_sessions, admin_numbers, last_order_status,
                   reqPc, reqDf, reqArgs, simPc, simDf, issued, announced>>

(* --------------------------- specifications --------------------------- *)
(* Spec runs the request path against the status sweep, with the texts of  *)
(* a customer and of the owner.  The notification sweep writes only its    *)
(* cache and its messages, which neither of the two reads; NotifySpec adds *)
(* it, with a customer who orders one unit at a time.                      *)
Customer == "919900000001"
Owner == "919900000002"

\* what the customer sends
CustomerTexts ==
    {Text("digits", "", str(3)), Text("word", "", <<>>)}
    \cup {Text("pair", "rice", str(q)) : q \in {0 - 1, 0, 1, SeedStock + 1}}
    \cup {Text("pair", "oil", str(1)), Text("pair", "salt", str(1)),
          Text("pair", "rice", <<"x">>)}

\* what the owner sends
OwnerTexts ==
    {Text("admin", ADMIN_PIN, <<>>), Text("admin", "0000", <<>>), Text("exit", "", <<>>)}
    \cup {Text("restock", "rice", str(q)) : q \in {SeedStock + 1, 0 - (SeedStock + 1)}}
    \cup {Text("restock", "salt", str(1)), Text("restock", "rice", <<"x">>),
          Text("restock_bare", "rice", <<>>)}

\* what the customer of NotifySpec sends
NotifyTexts == {Text("digits", "", str(3)), Text("pair", "rice", str(1))}

Receive ==
    \/ \E text \in CustomerTexts : Incoming(Customer, text)
    \/ \E text \in OwnerTexts : Incoming(Owner, text)

Next ==
    \/ Receive
    \/ AddOrderSave
    \/ SimLoad
    \/ SimScan

Spec == Init /\ [][Next]_vars

\* each run of the status sweep starts the timer of the next, and a run that
\* has loaded the ledger goes on to its scan
LiveSpec == Spec /\ WF_vars(SimLoad) /\ WF_vars(SimScan)

NotifyNext ==
    \/ \E text \in NotifyTexts : Incoming(Customer, text)
    \/ AddOrderSave
    \/ SimLoad
    \/ SimScan
    \/ CheckOrderUpdates

NotifySpec == Init /\ [][NotifyNext]_vars

SweepNext ==
    \/ NotifyNext
    \/ SimRaise
    \/ CheckRaise

\* SweepSpec is NotifySpec with runs of the sweeps that hit an error.
SweepSpec == Init /\ [][SweepNext]_vars

\* the state in which the program starts again over the files of an earlier
\* run that took one order: products.csv and orders.csv are read as they were
\* left, everything kept in memory starts empty
RestartInit ==
    /\ products = [load_products EXCEPT !["rice"] = StockAfterOrder(SeedStock, 1)]
    /\ orders = <<NewRow(BaseOrderId, "rice", 1, Customer)>>
    /\ user_sessions = [c \in Identities |-> "none"]
    /\ admin_numbers = {}
    /\ last_order_status = <<>>
    /\ reqPc = "idle"
    /\ reqDf = <<>>
    /\ reqArgs = NoArgs
    /\ simPc = "scheduled"
    /\ simDf = <<>>
    /\ outbox = <<>>
    /\ issued = <<>>
    /\ announced = <<>>
    /\ timers = [sweep \in Sweeps |-> 1]
    /\ raised = [sweep \in Sweeps |-> FALSE]
    /\ restocked = [name \in ProductNames |-> 0]

\* RestartSpec is Spec started over the files of an earlier run.
RestartSpec == RestartInit /\ [][Next]_vars

\* what an identity of RouterSpec sends: each of the router's text shapes
RouterTexts ==
    {Text("admin", ADMIN_PIN, <<>>), Text("admin", "0000", <<>>), Text("admin", "", <<>>),
     Text("exit", "", <<>>), Text("hi", "", <<>>), Text("word", "", <<>>),
     Text("offers", "", <<>>),
     Text("digits", "", str(1)), Text("digits", "", str(2)), Text("digits", "", str(3)),
     Text("digits", "", str(BaseOrderId)),
     Text("pair", "rice", str(1)), Text("pair", "rice", <<"x">>),
     Text("pair", "salt", str(1)),
     Text("restock", "rice", str(1)), Text("restock", "rice", str(0 - 1)),
     Text("restock", "salt", str(1)), Text("restock", "rice", <<"x">>),
     Text("restock_bare", "rice", <<>>)}

\* the identities of RouterSpec: each may be a customer or log in as admin
RouterIdentities == {Customer, Owner}

RouterNext ==
    \/ \E c \in RouterIdentities, text \in RouterTexts : Incoming(c, text)
    \/ AddOrderSave

\* RouterSpec runs the request path alone, with every text shape from each of
\* two identities.
RouterSpec == Init /\ [][RouterNext]_vars

\* a second owner, for AlertSpec
Owner2 == "919900000003"

\* what the customer of AlertSpec sends: orders that leave the stock at the
\* threshold and below it
AlertTexts ==
    {Text("digits", "", str(3)), Text("pair", "rice", str(0)),
     Text("pair", "rice", str(1)), Text("pair", "oil", str(1))}

\* what the owners of AlertSpec send
AdminTexts == {Text("admin", ADMIN_PIN, <<>>), Text("exit", "", <<>>)}

AlertNext ==
    \/ \E text \in AlertTexts : Incoming(Customer, text)
    \/ \E c \in {Owner, Owner2}, text \in AdminTexts : Incoming(c, text)
    \/ AddOrderSave

\* AlertSpec runs the request path with two owners who log in and out while
\* the customer orders.
AlertSpec == Init /\ [][AlertNext]_vars

(* ------------------------------ claims -------------------------------- *)
\* the quantities the customer's order texts carry
OrderQtys ==
    {int(text.num) : text \in {t \in CustomerTexts : t.k = "pair" /\ IsIntText(t.num)}}

\* the step in which identity c, asked for an order, sends "<p>,<q>" and
\* incoming calls add_order(p, q, c)
PlaceOrder(c, p, q) ==
    /\ c \notin admin_numbers
    /\ user_sessions[c] = "awaiting_new_order"
    /\ Incoming(c, Text("pair", p, str(q)))

\* C1: in every reachable state the stock of every product is >= 0.
C1_StockNonNegative == \A p \in DOMAIN products : products[p] >= 0

\* C2: add_order(p, q, c) on a product with stock s: when q <= s it succeeds (it
\* goes on to append one row for p and q and to return its id) and leaves p's
\* stock at s - q and every other stock as it was; when q > s it fails, the
\* stock stays s and no order is appended.
C2_StockAfterOrder ==
    [][/\ \A p \in DOMAIN products, q \in OrderQtys :
             PlaceOrder(Customer, p, q) =>
                IF q <= products[p]
                THEN /\ reqPc' = "add_order"
                     /\ reqArgs' = [product |-> p, qty_int |-> q, customer |-> Customer]
                     /\ products' = [products EXCEPT ![p] = products[p] - q]
                ELSE /\ reqPc' = "idle"
                     /\ products' = products
                     /\ orders' = orders
       /\ (reqPc = "add_order" /\ reqPc' = "idle") =>
             /\ Len(orders') = Len(reqDf) + 1
             /\ orders'[Len(orders')].product = reqArgs.product
             /\ orders'[Len(orders')].quantity = str(reqArgs.qty_int)
             /\ Len(issued') = Len(issued) + 1
             /\ products' = products]_vars

\* C2 witness: an order of 1 rice from the seeded stock is on its way to the
\* ledger, and the stock is one less.
C2_Witness ==
    /\ reqPc = "add_order"
    /\ reqArgs.product = "rice"
    /\ reqArgs.qty_int = 1
    /\ products = [load_products EXCEPT !["rice"] = SeedStock - 1]

\* C3: add_order with a quantity <= 0 on an existing product fails, creates no
\* order record and leaves the stock unchanged.
C3_NonPositiveRejected ==
    [][\A p \in DOMAIN products, q \in OrderQtys :
          (q <= 0 /\ PlaceOrder(Customer, p, q)) =>
             /\ reqPc' = "idle"
             /\ products' = products
             /\ orders' = orders]_vars

\* the numeric order ids of the ledger, in ledger order
LedgerIds == [i \in 1..Len(orders) |-> int(orders[i].order_id)]

\* C4: in every ledger state the order ids are pairwise distinct and strictly
\* increasing in ledger order, the first is 10001 and each later one is the
\* maximum of those before it plus 1.
C4_OrderIds ==
    /\ \A i, j \in 1..Len(orders) : i < j => LedgerIds[i] < LedgerIds[j]
    /\ Len(orders) > 0 => LedgerIds[1] = 10001
    /\ \A i \in 2..Len(orders) :
          LedgerIds[i] = Max({LedgerIds[j] : j \in 1..(i - 1)}) + 1
    /\ \A i \in 1..Len(orders) : orders[i].order_id = str(LedgerIds[i])

\* C4 witness: a second order has been placed after the first.
C4_Witness == Len(orders) = 2 /\ Len(issued) = 2 /\ orders[2].order_id = str(10002)

\* the first row of df with this status, 0 when there is none
FirstWith(df, status) ==
    LET hits == {i \in 1..Len(df) : df[i].status = status}
    IN  IF hits = {} THEN 0 ELSE CHOOSE i \in hits : \A j \in hits : i <= j

\* a run of the status sweep ends in this step
SweepEnds == simPc = "loaded" /\ simPc' = "scheduled"

\* C5: one run of the status sweep changes at most one order; when the ledger it
\* loaded holds a Processing order it moves the earliest of them to Shipped, and
\* only when none is Processing it moves the earliest Shipped order to Delivered.
C5_ProcessingFirst ==
    [][SweepEnds =>
          IF FirstWith(simDf, "Processing") # 0
          THEN orders' = [simDf EXCEPT ![FirstWith(simDf, "Processing")] =
                             [@ EXCEPT !.status = "Shipped", !.eta = "Tomorrow"]]
          ELSE IF FirstWith(simDf, "Shipped") # 0
          THEN orders' = [simDf EXCEPT ![FirstWith(simDf, "Shipped")] =
                             [@ EXCEPT !.status = "Delivered", !.eta = "Delivered Today"]]
          ELSE orders' = orders]_vars

AllDelivered == \A i \in 1..Len(orders) : orders[i].status = "Delivered"

\* C6: with order placement over, repeated runs of the status sweep reach a
\* ledger in which every order is Delivered, and a run of the sweep from such a
\* ledger leaves it unchanged.
C6_EventuallyDelivered ==
    /\ <>[]AllDelivered
    /\ [][(AllDelivered /\ SweepEnds) => orders' = orders]_vars

\* C6 witness: every order placed has been delivered, one step at a time, and
\* the sweep is waiting for its next run.
C6_Witness ==
    /\ Len(orders) = MaxOrders
    /\ AllDelivered
    /\ simPc = "scheduled"
    /\ reqPc = "idle"

Rank(status) ==
    CASE status = "Processing" -> 0
      [] status = "Shipped" -> 1
      [] status = "Delivered" -> 2

\* C7: the persisted status of an order moves only forward, one step at a time,
\* along Processing, Shipped, Delivered, and only in a step of the status sweep.
C7_StatusForward ==
    [][\A i \in 1..Len(orders), j \in 1..Len(orders') :
          orders[i].order_id = orders'[j].order_id =>
             \/ orders'[j].status = orders[i].status
             \/ /\ SweepEnds
                /\ Rank(orders'[j].status) = Rank(orders[i].status) + 1]_vars

\* C8: every order that was placed is in the ledger, and no step removes an order.
C8_NoLostOrder ==
    \A k \in 1..Len(issued) : \E i \in 1..Len(orders) : orders[i].order_id = issued[k]

\* the statuses an order has gone through after Processing to be in this status
PathTo(status) ==
    CASE status = "Processing" -> <<>>
      [] status = "Shipped" -> <<"Shipped">>
      [] status = "Delivered" -> <<"Shipped", "Delivered">>

Announced(order_id) ==
    IF order_id \in DOMAIN announced THEN announced[order_id] ELSE <<>>

\* C9: once the notification sweep has seen the current status of an order with
\* a customer, that customer has been sent one update for each transition the
\* order made, none missing and none twice.
C9_OncePerTransition ==
    \A i \in 1..Len(orders) :
       (/\ orders[i].customer # ""
        /\ orders[i].order_id \in DOMAIN last_order_status
        /\ last_order_status[orders[i].order_id] = orders[i].status)
       => Announced(orders[i].order_id) = PathTo(orders[i].status)

\* the ledger's status for this order id
StatusOf(df, order_id) == df[CHOOSE i \in 1..Len(df) : df[i].order_id = order_id].status

\* C10: a run of the notification sweep sends no update for an order id it sees
\* for the first time; it sends an update for an id only when the ledger's status
\* differs from the cached one; after the run the cache holds the ledger's status
\* of every order.
C10_SeedThenNotify ==
    [][/\ \A k \in 1..Len(outbox') :
             outbox'[k].kind = "order_update" =>
                /\ outbox'[k].order_id \in DOMAIN last_order_status
                /\ last_order_status[outbox'[k].order_id] # StatusOf(orders, outbox'[k].order_id)
                /\ outbox'[k].status = StatusOf(orders, outbox'[k].order_id)
                /\ last_order_status'[outbox'[k].order_id] = outbox'[k].status
       /\ last_order_status' # last_order_status =>
             \A i \in 1..Len(orders) :
                /\ orders[i].order_id \in DOMAIN last_order_status'
                /\ last_order_status'[orders[i].order_id] = orders[i].status
                /\ orders[i].order_id \notin DOMAIN last_order_status =>
                      \A k \in 1..Len(outbox') : outbox'[k].order_id # orders[i].order_id]_vars

\* C10 witness: an order seen earlier as Processing has just been announced as
\* Shipped, and the cache holds Shipped.
C10_Witness ==
    /\ Len(outbox) = 1
    /\ outbox[1].kind = "order_update"
    /\ outbox[1].status = "Shipped"
    /\ last_order_status[outbox[1].order_id] = "Shipped"
    /\ Announced(outbox[1].order_id) = <<"Shipped">>

\* C11: once an identity is awaiting an order id or a new order, its next text,
\* whatever it is, leaves its session state cleared.
C11_SessionSingleUse ==
    [][\A c \in RouterIdentities, text \in RouterTexts :
          (user_sessions[c] # "none" /\ Incoming(c, text)) =>
             user_sessions'[c] = "none"]_vars

\* C12: an identity enters the admin set only by its own 'admin' text with the
\* fixed PIN and leaves it only by its own 'exit'; an 'admin' text with a wrong
\* or missing PIN adds nobody, and 'exit' from a member removes it.
C12_AdminMembership ==
    [][/\ \A c \in RouterIdentities :
             /\ (c \notin admin_numbers /\ c \in admin_numbers') =>
                   Incoming(c, Text("admin", ADMIN_PIN, <<>>))
             /\ (c \in admin_numbers /\ c \notin admin_numbers') =>
                   Incoming(c, Text("exit", "", <<>>))
             /\ (c \in admin_numbers /\ Incoming(c, Text("exit", "", <<>>))) =>
                   c \notin admin_numbers'
             /\ (c \notin admin_numbers /\ Incoming(c, Text("admin", ADMIN_PIN, <<>>))) =>
                   c \in admin_numbers'
       /\ \A c \in RouterIdentities, text \in RouterTexts :
             (text.k = "admin" /\ text.name # ADMIN_PIN /\ Incoming(c, text)) =>
                admin_numbers' = admin_numbers]_vars

\* C12 witness: one identity has logged in with the PIN and the other is not an
\* admin.
C12_Witness == admin_numbers = {Owner} /\ reqPc = "idle"

\* C20: no text from an identity in the admin set changes its session state,
\* starts an order or touches the ledger.
C20_AdminDispatch ==
    [][\A c \in RouterIdentities, text \in RouterTexts :
          (c \in admin_numbers /\ Incoming(c, text)) =>
             /\ user_sessions' = user_sessions
             /\ reqPc' = "idle"
             /\ orders' = orders
             /\ text.k \notin {"restock", "restock_bare"} => products' = products]_vars

\* C20 witness: an identity that was asked for a new order and then logged in is
\* an admin with that session state still set.
C20_Witness ==
    \E c \in RouterIdentities :
       c \in admin_numbers /\ user_sessions[c] = "awaiting_new_order"

\* C13: an order for a product name that is not in the catalog fails: add_order
\* goes no further, and no stock, no order record and no order id changes.
C13_UnknownProductRejected ==
    [][\A text \in {t \in CustomerTexts : t.k = "pair" /\ t.name \notin ProductNames} :
          (/\ Customer \notin admin_numbers
           /\ user_sessions[Customer] = "awaiting_new_order"
           /\ Incoming(Customer, text)) =>
             /\ reqPc' = "idle"
             /\ products' = products
             /\ orders' = orders
             /\ issued' = issued]_vars

\* C13 witness: the customer has been asked for an order while the ledger
\* holds an order and the stock is no longer the seeded one.
C13_Witness ==
    /\ Customer \notin admin_numbers
    /\ user_sessions[Customer] = "awaiting_new_order"
    /\ reqPc = "idle"
    /\ Len(orders) = 1
    /\ products # load_products

\* a text that fails validation where identity c stands: not digits when an
\* order id is awaited, no comma or no integer quantity when an order is
\* awaited, a restock command of an admin with no comma or no integer quantity
ValidationFailure(c, text) ==
    \/ /\ c \notin admin_numbers
       /\ ~StartsWithAdmin(text)
       /\ user_sessions[c] = "awaiting_order_id"
       /\ ~TextIsDigit(text)
    \/ /\ c \notin admin_numbers
       /\ ~StartsWithAdmin(text)
       /\ user_sessions[c] = "awaiting_new_order"
       /\ (~HasComma(text) \/ ~IsIntText(AfterComma(text)))
    \/ /\ c \in admin_numbers
       /\ StartsWithRestock(text)
       /\ (~HasComma(text) \/ ~IsIntText(AfterComma(text)))

\* C14: a text that fails validation leaves the catalog and the ledger as they
\* were, and starts no order.
C14_ValidationMutatesNothing ==
    [][\A c \in RouterIdentities, text \in RouterTexts :
          (ValidationFailure(c, text) /\ Incoming(c, text)) =>
             /\ products' = products
             /\ orders' = orders
             /\ reqPc' = "idle"]_vars

\* C14 witness: one identity is an admin and the other has been asked for an
\* order, with an order in the ledger and a stock that is not the seeded one.
C14_Witness ==
    /\ \E c, d \in RouterIdentities :
          /\ c \in admin_numbers
          /\ d \notin admin_numbers
          /\ user_sessions[d] = "awaiting_new_order"
    /\ reqPc = "idle"
    /\ Len(orders) >= 1
    /\ products # load_products

\* C15: 'restock p,q' from an admin sets the stock of a product p of the
\* catalog to its prior stock + q and leaves the other products and the ledger
\* as they were; for a p that is not in the catalog it changes nothing.
C15_RestockAddsQuantity ==
    [][\A c \in RouterIdentities :
       \A text \in {t \in RouterTexts : t.k = "restock" /\ IsIntText(t.num)} :
          (c \in admin_numbers /\ Incoming(c, text)) =>
             /\ orders' = orders
             /\ reqPc' = "idle"
             /\ products' = IF text.name \in ProductNames
                            THEN [products EXCEPT ![text.name] = @ + int(text.num)]
                            ELSE products]_vars

\* C15 witness: an admin is logged in and rice stands one above the seeded
\* stock, which only a restock of 1 gives.
C15_Witness ==
    /\ admin_numbers # {}
    /\ products["rice"] = SeedStock + 1

\* C16: a successful order that leaves a stock < 10 tries one low stock
\* alert, with that stock, for each admin and for nobody else; one that leaves
\* a stock >= 10 tries none; and add_order goes on to append the order whether
\* or not an alert failed.
C16_LowStockAlert ==
    [][/\ \A text \in {t \in AlertTexts : t.k = "pair"} :
             (/\ Customer \notin admin_numbers
              /\ user_sessions[Customer] = "awaiting_new_order"
              /\ int(text.num) <= products[text.name]
              /\ Incoming(Customer, text)) =>
                LET new_stock == products[text.name] - int(text.num)
                IN  /\ reqPc' = "add_order"
                    /\ reqArgs' = [product |-> text.name, qty_int |-> int(text.num),
                                   customer |-> Customer]
                    /\ IF new_stock < 10
                       THEN /\ Len(outbox') = Cardinality(admin_numbers)
                            /\ {outbox'[i].to : i \in 1..Len(outbox')} = admin_numbers
                            /\ \A i \in 1..Len(outbox') :
                                  /\ outbox'[i].kind = "low_stock"
                                  /\ outbox'[i].product = text.name
                                  /\ outbox'[i].n = new_stock
                       ELSE outbox' = <<>>
       /\ (reqPc = "add_order" /\ reqPc' = "idle") =>
             /\ Len(orders') = Len(reqDf) + 1
             /\ orders'[Len(orders')].product = reqArgs.product
             /\ orders'[Len(orders')].quantity = str(reqArgs.qty_int)
             /\ orders'[Len(orders')].customer = reqArgs.customer]_vars

\* C16 witness: an order left a stock below the threshold with two admins logged
\* in, the alert to one of them failed, and add_order is going on.
C16_Witness ==
    /\ reqPc = "add_order"
    /\ admin_numbers = {Owner, Owner2}
    /\ Len(outbox) = 2
    /\ \E i, j \in 1..2 : outbox[i].status = "failed" /\ outbox[j].status # "failed"

\* C17: the stock of a product goes down only in a step in which add_order
\* accepts an order for that product and that quantity, which it goes on to
\* append to the ledger.
C17_DecreaseOnlyWithOrder ==
    [][\A p \in DOMAIN products :
          products'[p] < products[p] =>
             /\ reqPc' = "add_order"
             /\ reqArgs'.product = p
             /\ reqArgs'.qty_int = products[p] - products'[p]]_vars

\* C18: add_order's save leaves the ledger as it was with one row appended,
\* Processing, eta 2 days, for the product, the quantity and the identity of
\* the order; and the ledger gets a row in no other step.
C18_AppendOnly ==
    [][/\ (reqPc = "add_order" /\ reqPc' = "idle") =>
             /\ Len(orders') = Len(orders) + 1
             /\ SubSeq(orders', 1, Len(orders)) = orders
             /\ orders'[Len(orders')].status = "Processing"
             /\ orders'[Len(orders')].eta = "2 days"
             /\ orders'[Len(orders')].product = reqArgs.product
             /\ orders'[Len(orders')].quantity = str(reqArgs.qty_int)
             /\ orders'[Len(orders')].customer = reqArgs.customer
       /\ Len(orders') > Len(orders) => (reqPc = "add_order" /\ reqPc' = "idle")]_vars

\* the instances of a sweep: its pending timers and its run in progress (a run
\* of check_order_updates is one step)
Instances(sweep) ==
    timers[sweep] + (IF sweep = "simulate_order_flow" /\ simPc = "loaded" THEN 1 ELSE 0)

\* C19: each sweep has at every moment exactly one instance, running or
\* scheduled: a run, also one that hit an error, starts the next timer, and
\* only at its end.
C19_OneInstance == \A sweep \in Sweeps : Instances(sweep) = 1

\* C19 witness: the last run of each sweep hit an error and each sweep is
\* scheduled again.
C19_Witness ==
    /\ \A sweep \in Sweeps : raised[sweep] /\ timers[sweep] = 1
    /\ simPc = "scheduled"
    /\ Len(orders) = 2

\* the quantities of the ledger's orders for a product, summed
RECURSIVE SumQuantity(_, _)
SumQuantity(df, name) ==
    IF Len(df) = 0 THEN 0
    ELSE (IF Head(df).product = name THEN int(Head(df).quantity) ELSE 0)
         + SumQuantity(Tail(df), name)

\* C21: whenever no order placement is in progress, for every product the
\* stock plus the quantities of the ledger's orders for it is the seeded stock
\* plus the quantities restocked.
C21_StockConservation ==
    reqPc = "idle" =>
       \A name \in ProductNames :
          products[name] + SumQuantity(orders, name) = SeedStock + restocked[name]

\* C22: the order ids add_order has returned since the program started are
\* pairwise distinct.
C22_IdsNeverReissued ==
    \A i, j \in 1..Len(issued) : i # j => issued[i] # issued[j]

\* C23: the stock of a product goes up only in the step of a restock command
\* from an identity that is an admin.
C23_IncreaseOnlyByAdminRestock ==
    [][\A name \in ProductNames :
          products'[name] > products[name] =>
             \E text \in {t \in OwnerTexts : t.k = "restock"} :
                /\ Owner \in admin_numbers
                /\ text.name = name
                /\ Incoming(Owner, text)]_vars

\* C24: the statuses sent to the customer of an order never include
\* Processing and go strictly forward.
C24_AnnouncedForward ==
    \A order_id \in DOMAIN announced :
       /\ \A i \in 1..Len(announced[order_id]) :
             lower(announced[order_id][i]) # "processing"
       /\ \A i, j \in 1..Len(announced[order_id]) :
             i < j => Rank(announced[order_id][i]) < Rank(announced[order_id][j])

====
